---- MODULE Spec2Model ----
(***************************************************************************)
(* Verification model of the hermes-3 species components:                  *)
(*   - EvolveDensity / EvolveMomentum  transform / finally and the         *)
(*     per-timestep state they exchange        (specification Spec)        *)
(*   - FV::Div_par_fvv, the parallel self-advective flux divergence        *)
(*                                              (specification SpecFvv)    *)
(*   - clamp and the argument of the low-density diffusion logarithm       *)
(*                                              (specification SpecClamp)  *)
(* Real (BoutReal) values are modelled by exact rationals <<num, den>>.    *)
(***************************************************************************)
EXTENDS Integers, Sequences, FiniteSets, TLC

\* ------------------------------------------------------------------------
\* Bounds of the model
\* ------------------------------------------------------------------------
MaxN == 1
MaxNV == 1
MaxSrc == 1
MYG == 2
RankNy == 2
MaxF == 1
MaxV == 2
MaxW == 1
MaxFloor == 2
MaxK == 3
ClampCells == 2

\* ------------------------------------------------------------------------
\* Exact rational arithmetic standing for BoutReal
\* ------------------------------------------------------------------------
Abs(x) == IF x < 0 THEN -x ELSE x

RECURSIVE Gcd(_, _)
Gcd(a, b) == IF b = 0 THEN a ELSE Gcd(b, a % b)

RNorm(n, d) ==
  LET g == Gcd(Abs(n), Abs(d))
      s == IF d < 0 THEN -1 ELSE 1
  IN  <<(s * n) \div g, (s * d) \div g>>

R(n) == <<n, 1>>
RZero == <<0, 1>>
RAdd(a, b) == RNorm(a[1] * b[2] + b[1] * a[2], a[2] * b[2])
RSub(a, b) == RNorm(a[1] * b[2] - b[1] * a[2], a[2] * b[2])
RMul(a, b) == RNorm(a[1] * b[1], a[2] * b[2])
RDiv(a, b) == RNorm(a[1] * b[2], a[2] * b[1])
RLt(a, b) == a[1] * b[2] < b[1] * a[2]
RNeg(a) == <<-a[1], a[2]>>
RHalf == <<1, 2>>

VARIABLES
  \* --- components and the state exchange
  cfg, N, logN, NV, state, calls, err, ddtN, ddtlogN, ddtNV, Sn, wsDen, wsMom,
  readsDen,
  \* --- FV::Div_par_fvv: inputs and mesh data of the whole column
  gf, gv, gw, gJ, gdy, gg_22, fixflux, periodic,
  \* --- FV::Div_par_fvv: the call in progress
  run, pc, ys, ye, j, flux, at, result, touched, out, fluxLog,
  \* --- clamp and the low-density diffusion coefficient
  density_floor, cvar, cresult, cd, cpc, logArg

compVars == <<cfg, N, logN, NV, state, calls, err, ddtN, ddtlogN, ddtNV, Sn, wsDen, wsMom,
             readsDen>>
fvvIn == <<gf, gv, gw, gJ, gdy, gg_22, fixflux, periodic>>
fvvVars == <<fvvIn, run, pc, ys, ye, j, flux, at, result, touched, out, fluxLog>>
clampVars == <<density_floor, cvar, cresult, cd, cpc, logArg>>
vars == <<compVars, fvvVars, clampVars>>

\* the variables of clamp while the components or the flux operator are modelled
ClampIdle ==
  /\ density_floor = 0 /\ cvar = <<>> /\ cresult = <<>> /\ cd = 0 /\ cpc = "idle"
  /\ logArg = <<>>

\* the variables of the flux operator while the components are modelled
FvvIdle ==
  /\ gf = <<>> /\ gv = <<>> /\ gw = <<>> /\ gJ = <<>> /\ gdy = <<>> /\ gg_22 = <<>>
  /\ fixflux = FALSE /\ periodic = FALSE
  /\ run = 0 /\ pc = "idle" /\ ys = 0 /\ ye = 0 /\ j = 0
  /\ flux = RZero /\ at = <<>> /\ result = <<>> /\ touched = {} /\ out = <<>>
  /\ fluxLog = {}

\* ------------------------------------------------------------------------
\* The state exchange (Options tree) and the two components
\* ------------------------------------------------------------------------
\* Field values are unnormalised fractions <<num, den>>; a division by a
\* zero field keeps den = 0 (the floating point inf/nan), it is no error.
FAdd(a, b) == <<a[1] * b[2] + b[1] * a[2], a[2] * b[2]>>
FMul(a, b) == <<a[1] * b[1], a[2] * b[2]>>
FDiv(a, b) == <<a[1] * b[2], a[2] * b[1]>>

SpeciesKeys == {"density", "AA", "charge", "momentum", "velocity", "temperature",
                "pressure", "density_source", "momentum_source"}
GlobalKeys == {"sound_speed", "phi"}
Keys == SpeciesKeys \cup GlobalKeys
\* keys that components other than these two may publish
OtherKeys == {"temperature", "pressure", "density_source", "momentum_source",
              "sound_speed", "phi"}
OtherVal == [k \in OtherKeys |->
               CASE k = "temperature" -> R(4)
                 [] k = "pressure" -> R(5)
                 [] k = "density_source" -> R(3)
                 [] k = "momentum_source" -> R(2)
                 [] k = "sound_speed" -> R(7)
                 [] k = "phi" -> R(6)]

NotSet == [isSet |-> FALSE, val |-> RZero]
FreshState == [k \in Keys |-> NotSet]
isSet(st, k) == st[k].isSet
get(st, k) == st[k].val
set(st, k, x) == [st EXCEPT ![k] = [isSet |-> TRUE, val |-> x]]

NoErr == [kind |-> "none", at |-> "none"]
NoWave == [kind |-> "none", val |-> RZero, scaled |-> FALSE]
ZeroDdt == [terms |-> {}, val |-> RZero]
NoLog == [num |-> ZeroDdt, den |-> 0]

\* exp() of the evolved logarithm; the model evolves the base-2 logarithm so
\* that densities stay integral
Exp(x) == 2 ^ x

Called(c) == \E i \in 1..Len(calls) : calls[i] = c
Before(c, d) == \E i, k \in 1..Len(calls) : i < k /\ calls[i] = c /\ calls[k] = d

Configs ==
  [hasMomentum : BOOLEAN, others : SUBSET OtherKeys,
   low_n_diffuse : BOOLEAN, low_n_diffuse_perp : BOOLEAN, hyper_z : BOOLEAN,
   evolve_log : BOOLEAN, charge : {-1, 0}, AA : {1, 2}, source : 1..MaxSrc]

Transforms(c) == {"dT"} \cup (IF c.hasMomentum THEN {"mT"} ELSE {})
                        \cup (IF c.others # {} THEN {"oT"} ELSE {})
Finallys(c) == {"dF"} \cup (IF c.hasMomentum THEN {"mF"} ELSE {})
TransformsDone == \A c \in Transforms(cfg) : Called(c)
FinallysDone == \A c \in Finallys(cfg) : Called(c)

\* EvolveDensity::EvolveDensity / EvolveMomentum::EvolveMomentum and the first
\* values the solver hands over
Init ==
  /\ cfg \in Configs
  /\ logN \in (IF cfg.evolve_log THEN 0..MaxN ELSE {0})
  /\ N \in (IF cfg.evolve_log THEN {Exp(logN)} ELSE 0..MaxN)
  /\ NV \in (IF cfg.hasMomentum THEN 0..MaxNV ELSE {0})
  /\ state = FreshState
  /\ calls = <<>>
  /\ err = NoErr
  /\ ddtN = ZeroDdt
  /\ ddtlogN = NoLog
  /\ ddtNV = ZeroDdt
  /\ Sn = RZero
  /\ wsDen = NoWave
  /\ wsMom = NoWave
  /\ readsDen = {}
  /\ FvvIdle
  /\ ClampIdle

\* EvolveDensity::transform
EvolveDensityTransform ==
  /\ err = NoErr
  /\ ~Called("dT")
  /\ N' = IF cfg.evolve_log THEN Exp(logN) ELSE N
  /\ LET s1 == set(state, "density", R(N'))
         s2 == set(s1, "AA", R(cfg.AA))
     IN  state' = IF cfg.charge # 0 THEN set(s2, "charge", R(cfg.charge)) ELSE s2
  /\ calls' = Append(calls, "dT")
  /\ UNCHANGED <<cfg, logN, NV, err, ddtN, ddtlogN, ddtNV, Sn, wsDen, wsMom, readsDen, fvvVars, clampVars>>

\* velocity = NV / (AA * N)
VelocityNoMass(nv, aa, n) == FDiv(nv, n)
Velocity(nv, aa, n) == FDiv(nv, FMul(aa, n))

\* EvolveMomentum::transform
EvolveMomentumTransform ==
  /\ cfg.hasMomentum
  /\ err = NoErr
  /\ ~Called("mT")
  /\ calls' = Append(calls, "mT")
  /\ LET s1 == set(state, "momentum", R(NV))
     IN  IF ~isSet(s1, "density") \/ ~isSet(s1, "AA")
         THEN /\ state' = s1
              /\ err' = [kind |-> "MissingStateField", at |-> "mT"]
         ELSE /\ state' = set(s1, "velocity",
                              Velocity(R(NV), get(s1, "AA"), get(s1, "density")))
              /\ err' = err
  /\ UNCHANGED <<cfg, N, logN, NV, ddtN, ddtlogN, ddtNV, Sn, wsDen, wsMom, readsDen, fvvVars, clampVars>>

RECURSIVE PublishAll(_, _)
PublishAll(st, ks) ==
  IF ks = {} THEN st
  ELSE LET k == CHOOSE x \in ks : TRUE
       IN  PublishAll(set(st, k, OtherVal[k]), ks \ {k})

\* the transform of the other components of the simulation
OtherTransform ==
  /\ cfg.others # {}
  /\ err = NoErr
  /\ ~Called("oT")
  /\ calls' = Append(calls, "oT")
  /\ state' = PublishAll(state, cfg.others)
  /\ UNCHANGED <<cfg, N, logN, NV, err, ddtN, ddtlogN, ddtNV, Sn, wsDen, wsMom, readsDen, fvvVars, clampVars>>

\* state.isSection("fields") and state["fields"].isSet("phi"): the ExB term
ExBTerm(st) == IF isSet(st, "phi") THEN {"ExB"} ELSE {}

Unassigned == [kind |-> "unassigned", val |-> RZero, scaled |-> FALSE]
SqrtOf(t) == [kind |-> "sqrtT", val |-> t, scaled |-> FALSE]
Published(x) == [kind |-> "sound_speed", val |-> x, scaled |-> FALSE]
\* sqrt(SI::Me / SI::Mp) * sound_speed
Scaled(w) == [w EXCEPT !.scaled = TRUE]

\* "Typical wave speed used for numerical diffusion": the value of the outer
\* variable sound_speed after the if/else.  In the first branch the get() is
\* assigned to a new variable declared inside the block, so the outer one stays
\* a default-constructed (unassigned) Field3D.
SoundSpeedAlwaysT(st) ==
  IF isSet(st, "temperature")
  THEN [failed |-> FALSE, ws |-> SqrtOf(get(st, "temperature")), reads |-> {"temperature"}]
  ELSE [failed |-> TRUE, ws |-> Unassigned, reads |-> {"temperature"}]
SoundSpeed(st) ==
  IF isSet(st, "sound_speed")
  THEN [failed |-> FALSE, ws |-> Unassigned, reads |-> {"sound_speed"}]
  ELSE IF isSet(st, "temperature")
       THEN [failed |-> FALSE, ws |-> SqrtOf(get(st, "temperature")),
             reads |-> {"temperature"}]
       ELSE [failed |-> TRUE, ws |-> Unassigned, reads |-> {"temperature"}]

\* the outcomes of handing an unassigned Field3D to an operator: the data
\* check throws when checks are compiled in, otherwise the behaviour is
\* undefined
UnassignedOutcomes == {"UnassignedField", "Undefined"}

\* low_n_diffuse, low_n_diffuse_perp and hyper_z terms
LowNTermsAlways(c) == {"Div_par_K_Grad_par"}
LowNTerms(c) ==
  (IF c.low_n_diffuse THEN {"Div_par_K_Grad_par"} ELSE {})
  \cup (IF c.low_n_diffuse_perp THEN {"Div_Perp_Lap_FV_Index"} ELSE {})
  \cup (IF c.hyper_z THEN {"D4DZ4"} ELSE {})

\* Sn = source; Sn += density_source if set
SourceSumNoExt(st, c) == R(c.source)
SourceSum(st, c) ==
  IF isSet(st, "density_source")
  THEN FAdd(R(c.source), get(st, "density_source"))
  ELSE R(c.source)

\* EvolveDensity::finally
EvolveDensityFinally ==
  /\ err = NoErr
  /\ TransformsDone
  /\ ~Called("dF")
  /\ calls' = Append(calls, "dF")
  /\ N' = get(state, "density")[1]
  /\ LET dd0 == [terms |-> ExBTerm(state), val |-> RZero]
         r0 == {"density"} \cup (IF isSet(state, "phi") THEN {"phi"} ELSE {})
         ss == SoundSpeed(state)
         arg == IF isSet(state, "phi") THEN Scaled(ss.ws) ELSE ss.ws
         tail(dd, rd) ==
           /\ Sn' = SourceSum(state, cfg)
           /\ ddtN' = [terms |-> dd.terms \cup LowNTerms(cfg), val |-> FAdd(dd.val, Sn')]
           /\ ddtlogN' = IF cfg.evolve_log THEN [num |-> ddtN', den |-> N'] ELSE ddtlogN
           /\ readsDen' = rd \cup (IF isSet(state, "density_source")
                                   THEN {"density_source"} ELSE {})
           /\ err' = err
     IN  IF ~isSet(state, "velocity")
         THEN /\ wsDen' = NoWave
              /\ tail(dd0, r0)
         ELSE IF ss.failed
         THEN /\ err' = [kind |-> "MissingStateField", at |-> "dF"]
              /\ ddtN' = dd0
              /\ readsDen' = r0 \cup {"velocity"} \cup ss.reads
              /\ wsDen' = NoWave
              /\ UNCHANGED <<Sn, ddtlogN>>
         ELSE IF ss.ws.kind = "unassigned"
         THEN /\ \E k \in UnassignedOutcomes : err' = [kind |-> k, at |-> "dF"]
              /\ ddtN' = dd0
              /\ readsDen' = r0 \cup {"velocity"} \cup ss.reads
              /\ wsDen' = arg
              /\ UNCHANGED <<Sn, ddtlogN>>
         ELSE /\ wsDen' = arg
              /\ tail([dd0 EXCEPT !.terms = @ \cup {"Div_par"}],
                      r0 \cup {"velocity"} \cup ss.reads)
  /\ UNCHANGED <<cfg, logN, NV, state, ddtNV, wsMom, fvvVars, clampVars>>

\* EvolveMomentum::finally
EvolveMomentumFinally ==
  /\ cfg.hasMomentum
  /\ err = NoErr
  /\ TransformsDone
  /\ ~Called("mF")
  /\ calls' = Append(calls, "mF")
  /\ LET dd0 == [terms |-> ExBTerm(state), val |-> RZero]
         ss == SoundSpeed(state)
     IN  IF ss.failed
         THEN /\ err' = [kind |-> "MissingStateField", at |-> "mF"]
              /\ ddtNV' = dd0
              /\ wsMom' = NoWave
         ELSE IF ss.ws.kind = "unassigned"
         THEN /\ \E k \in UnassignedOutcomes : err' = [kind |-> k, at |-> "mF"]
              /\ ddtNV' = dd0
              /\ wsMom' = ss.ws
         ELSE /\ err' = err
              /\ wsMom' = ss.ws
              /\ ddtNV' =
                   [terms |-> dd0.terms \cup {"Div_par_fvv"}
                                \cup (IF isSet(state, "pressure") THEN {"Grad_par"} ELSE {}),
                    val |-> IF isSet(state, "momentum_source")
                            THEN get(state, "momentum_source") ELSE RZero]
  /\ UNCHANGED <<cfg, N, logN, NV, state, ddtN, ddtlogN, Sn, wsDen, readsDen, fvvVars, clampVars>>

\* the solver takes the derivatives and starts the next timestep with new
\* values of the evolved fields and a fresh state
NewTimestep ==
  /\ err = NoErr
  /\ FinallysDone
  /\ logN' \in (IF cfg.evolve_log THEN 0..MaxN ELSE {0})
  /\ N' \in (IF cfg.evolve_log THEN {N} ELSE 0..MaxN)
  /\ NV' \in (IF cfg.hasMomentum THEN 0..MaxNV ELSE {0})
  /\ state' = FreshState
  /\ calls' = <<>>
  /\ ddtN' = ZeroDdt
  /\ ddtlogN' = NoLog
  /\ ddtNV' = ZeroDdt
  /\ Sn' = RZero
  /\ wsDen' = NoWave
  /\ wsMom' = NoWave
  /\ readsDen' = {}
  /\ UNCHANGED <<cfg, err, fvvVars, clampVars>>

Next ==
  \/ EvolveDensityTransform
  \/ EvolveMomentumTransform
  \/ OtherTransform
  \/ EvolveDensityFinally
  \/ EvolveMomentumFinally
  \/ NewTimestep

Spec == Init /\ [][Next]_vars

\* ------------------------------------------------------------------------
\* Properties of the components (checked under Spec)
\* ------------------------------------------------------------------------

\* C1: within one timestep, if EvolveDensity::transform ran before
\* EvolveMomentum::transform, the published velocity is NV / (AA * N) with the
\* density and AA the density component published; if the momentum transform
\* ran first it failed with a missing-field error and published no velocity.
C1_TransformOrder ==
  Called("mT") =>
    IF Before("dT", "mT")
    THEN /\ err.at # "mT"
         /\ get(state, "density") = R(N)
         /\ get(state, "AA") = R(cfg.AA)
         /\ isSet(state, "velocity")
         /\ get(state, "velocity") = <<NV, cfg.AA * N>>
    ELSE /\ err = [kind |-> "MissingStateField", at |-> "mT"]
         /\ ~isSet(state, "velocity")

C1_Witness ==
  /\ Before("dT", "mT")
  /\ NV # 0 /\ N > 0 /\ cfg.AA = 2
  /\ get(state, "velocity") = <<NV, 2 * N>>

DefaultToggles ==
  /\ ~cfg.low_n_diffuse /\ ~cfg.low_n_diffuse_perp /\ ~cfg.hyper_z /\ ~cfg.evolve_log

NoFlowPublished ==
  /\ ~isSet(state, "velocity") /\ ~isSet(state, "pressure") /\ ~isSet(state, "phi")

\* C2 as stated: with low_n_diffuse = false and the default toggles, and no
\* velocity, pressure or potential published, finally yields ddt(N) = source.
C2_Original ==
  (Called("dF") /\ DefaultToggles /\ NoFlowPublished) =>
     ddtN = [terms |-> {}, val |-> R(cfg.source)]

\* C2 (amended): with low_n_diffuse = false and the default toggles, no
\* velocity, pressure or potential published and no density_source published,
\* finally yields ddt(N) = source and no other term; when a density_source is
\* published it is added, ddt(N) = source + density_source.
C2_SourceOnly ==
  (Called("dF") /\ DefaultToggles /\ NoFlowPublished) =>
     /\ ddtN.terms = {}
     /\ ~isSet(state, "density_source") => ddtN.val = R(cfg.source)
     /\ isSet(state, "density_source") =>
          ddtN.val = FAdd(R(cfg.source), get(state, "density_source"))

C2_Witness ==
  /\ Called("dF") /\ DefaultToggles /\ NoFlowPublished
  /\ ~isSet(state, "density_source")
  /\ isSet(state, "temperature")
  /\ ddtN = [terms |-> {}, val |-> R(cfg.source)]

\* C3: EvolveDensity::finally fails with a missing-state-field error exactly
\* when velocity is published, no sound_speed is in the state and temperature
\* is absent; it never fails when velocity is absent, and it does not read
\* temperature when sound_speed is supplied.
C3_MissingFieldIff ==
  Called("dF") =>
    /\ (err = [kind |-> "MissingStateField", at |-> "dF"])
         <=> (/\ isSet(state, "velocity")
              /\ ~isSet(state, "sound_speed")
              /\ ~isSet(state, "temperature"))
    /\ ~isSet(state, "velocity") => err.at # "dF"
    /\ isSet(state, "sound_speed") => "temperature" \notin readsDen

C3_Witness ==
  /\ Called("dF")
  /\ isSet(state, "velocity")
  /\ err = [kind |-> "MissingStateField", at |-> "dF"]

\* C4: the wave speed handed to FV::Div_par (density) and FV::Div_par_fvv
\* (momentum) is the published sound_speed when one is supplied (scaled in the
\* density case when a potential is present), sqrt(temperature) otherwise, and
\* in both cases an assigned field.
C4_WaveSpeedPassed ==
  /\ (Called("dF") /\ isSet(state, "velocity") /\ isSet(state, "sound_speed")) =>
        wsDen = [kind |-> "sound_speed", val |-> get(state, "sound_speed"),
                 scaled |-> isSet(state, "phi")]
  /\ (Called("dF") /\ isSet(state, "velocity") /\ ~isSet(state, "sound_speed")
        /\ isSet(state, "temperature")) =>
        wsDen = [kind |-> "sqrtT", val |-> get(state, "temperature"),
                 scaled |-> isSet(state, "phi")]
  /\ (Called("mF") /\ isSet(state, "sound_speed")) =>
        wsMom = Published(get(state, "sound_speed"))
  /\ (Called("mF") /\ ~isSet(state, "sound_speed") /\ isSet(state, "temperature")) =>
        wsMom = SqrtOf(get(state, "temperature"))
  /\ wsDen.kind # "unassigned"
  /\ wsMom.kind # "unassigned"

\* ------------------------------------------------------------------------
\* FV::Div_par_fvv
\* ------------------------------------------------------------------------
\* One column (one x index, one z index) of a field-aligned mesh whose
\* parallel transform is the identity.  The whole column has GNy cells and
\* MYG guard cells on either side; it is computed undivided and on ranks that
\* own RankNy cells of it and hold their neighbours' values in the guard cells.
GNy == 2 * RankNy
GLen == GNy + 2 * MYG
GCells == 0..(GLen - 1)

Mesh(name, off, ny, first, last) ==
  [name |-> name, off |-> off, ystart |-> MYG, yend |-> MYG + ny - 1,
   LocalNy |-> ny + 2 * MYG, firstY |-> first, lastY |-> last]

Runs == << Mesh("whole", 0, GNy, TRUE, TRUE),
           Mesh("lower", 0, RankNy, TRUE, FALSE),
           Mesh("upper", RankNy, RankNy, FALSE, TRUE),
           Mesh("middle", 1, RankNy, FALSE, FALSE) >>
mesh == Runs[run]
periodicY == periodic

\* profiles along the column: uniform, linear, peaked at the middle of the
\* column, a jump by two at the middle of the column, alternating
FShapes == {"flat", "ramp", "hump"}
VShapes == {"flat", "ramp", "step"}
WShapes == {"flat", "zig"}
ShapeVal(s, i) ==
  CASE s = "flat" -> 0
    [] s = "ramp" -> i
    [] s = "hump" -> IF i < MYG + RankNy THEN i ELSE GLen - 1 - i
    [] s = "step" -> IF i < MYG + RankNy THEN 0 ELSE 2 * MaxV
    [] s = "zig" -> i % 2

\* guard cells of a periodic column hold the values of the other end
Wrap(a) ==
  [i \in GCells |-> IF i < MYG THEN a[i + GNy]
                    ELSE IF i >= MYG + GNy THEN a[i - GNy] ELSE a[i]]
Communicated(a, per) == IF per THEN Wrap(a) ELSE a
Profile(base, s) == [i \in GCells |-> base + ShapeVal(s, i)]

MetricJ(mt) == [i \in GCells |-> IF mt = "uniform" THEN 1 ELSE 1 + (i % 2)]
MetricDy(mt) == [i \in GCells |-> IF mt = "uniform" THEN 1 ELSE 1 + ((i \div 2) % 2)]
MetricG22(mt) == [i \in GCells |-> IF mt = "uniform" \/ i % 3 # 0 THEN 1 ELSE 4]

\* toFieldAligned(f_in), toFieldAligned(v_in), toFieldAligned(wave_speed_in) and
\* the coordinates, as seen by the mesh of the call in progress
f(i) == R(gf[mesh.off + i])
v(i) == R(gv[mesh.off + i])
wave_speed(i) == R(gw[mesh.off + i])
J(i) == R(gJ[mesh.off + i])
dy(i) == R(gdy[mesh.off + i])
g_22(i) == gg_22[mesh.off + i]

\* sqrt on the perfect squares the metric takes
sqrt(x) == R(CHOOSE r \in 0..x : r * r = x)

RAbs(a) == <<Abs(a[1]), a[2]>>
RMin(a, b) == IF RLt(b, a) THEN b ELSE a
BOUTMAX(a, b) == IF RLt(a, b) THEN b ELSE a
RLeq(a, b) == ~RLt(b, a)
SIGN(a) == IF a[1] < 0 THEN R(-1) ELSE R(1)

\* the default CellEdges of the template, MC of bout/fv_ops.hxx:
\* monotonised central slope, L = c - slope/2, R = c + slope/2
minmod(a, b, c) ==
  IF RLeq(RMul(a, b), RZero) \/ RLeq(RMul(a, c), RZero) THEN RZero
  ELSE RMul(SIGN(a), RMin(RAbs(a), RMin(RAbs(b), RAbs(c))))
cellboundary(s) ==
  LET slope == minmod(RMul(R(2), RSub(s.p, s.c)),
                      RMul(RHalf, RSub(s.p, s.m)),
                      RMul(R(2), RSub(s.c, s.m)))
  IN  [m |-> s.m, c |-> s.c, p |-> s.p,
       L |-> RSub(s.c, RMul(RHalf, slope)),
       R |-> RAdd(s.c, RMul(RHalf, slope))]

StencilF(jj) == cellboundary([c |-> f(jj), m |-> f(jj - 1), p |-> f(jj + 1)])
StencilV(jj) == cellboundary([c |-> v(jj), m |-> v(jj - 1), p |-> v(jj + 1)])

\* ys and ye of the column
LoopRangeInterior(m, per) == [ys |-> m.ystart, ye |-> m.yend]
LoopRangeNoPeriodic(m, per) ==
  [ys |-> IF ~m.firstY THEN m.ystart - 1 ELSE m.ystart,
   ye |-> IF ~m.lastY THEN m.yend + 1 ELSE m.yend]
LoopRange(m, per) ==
  [ys |-> IF ~m.firstY \/ per THEN m.ystart - 1 ELSE m.ystart,
   ye |-> IF ~m.lastY \/ per THEN m.yend + 1 ELSE m.yend]

\* factors which multiply fluxes
CommonFactorR(jj) ==
  RDiv(RAdd(J(jj), J(jj + 1)), RAdd(sqrt(g_22(jj)), sqrt(g_22(jj + 1))))
CommonFactorL(jj) ==
  RDiv(RAdd(J(jj), J(jj - 1)), RAdd(sqrt(g_22(jj)), sqrt(g_22(jj - 1))))
flux_factor_rc(jj) == RDiv(CommonFactorR(jj), RMul(dy(jj), J(jj)))
flux_factor_rp_same(jj) == RDiv(CommonFactorR(jj), RMul(dy(jj), J(jj)))
flux_factor_rp(jj) == RDiv(CommonFactorR(jj), RMul(dy(jj + 1), J(jj + 1)))
flux_factor_lc(jj) == RDiv(CommonFactorL(jj), RMul(dy(jj), J(jj)))
flux_factor_lm(jj) == RDiv(CommonFactorL(jj), RMul(dy(jj - 1), J(jj - 1)))

\* velocity at the right (y+1/2) and left (y-1/2) cell boundary, and the
\* maximum wave speed in the two cells
VparR(jj) == RMul(RHalf, RAdd(v(jj), v(jj + 1)))
VparL(jj) == RMul(RHalf, RAdd(v(jj), v(jj - 1)))
AmaxR(jj) == BOUTMAX(wave_speed(jj), wave_speed(jj + 1))
AmaxL(jj) == BOUTMAX(wave_speed(jj), wave_speed(jj - 1))
LastPoint(jj) == mesh.lastY /\ jj = mesh.yend /\ ~periodicY
FirstPoint(jj) == mesh.firstY /\ jj = mesh.ystart /\ ~periodicY

\* flux through the right boundary of cell jj
RightFluxNoSv(jj) ==
  LET s == StencilF(jj)
      sv == StencilV(jj)
      vpar == VparR(jj)
      bndryval == RMul(RHalf, RAdd(s.c, s.p))
      amax == AmaxR(jj)
  IN  IF LastPoint(jj)
      THEN IF fixflux
           THEN RMul(bndryval, RMul(vpar, vpar))
           ELSE RAdd(RMul(s.R, RMul(vpar, sv.R)),
                     RMul(wave_speed(jj),
                          RSub(RMul(s.R, sv.R), RMul(bndryval, vpar))))
      ELSE IF RLt(amax, vpar) THEN RMul(s.R, RMul(vpar, sv.R))
      ELSE IF RLt(vpar, RNeg(amax)) THEN RZero
      ELSE RMul(s.R, RMul(RHalf, RAdd(vpar, amax)))
RightFlux(jj) ==
  LET s == StencilF(jj)
      sv == StencilV(jj)
      vpar == VparR(jj)
      bndryval == RMul(RHalf, RAdd(s.c, s.p))
      amax == AmaxR(jj)
  IN  IF LastPoint(jj)
      THEN IF fixflux
           THEN RMul(bndryval, RMul(vpar, vpar))
           ELSE RAdd(RMul(s.R, RMul(vpar, sv.R)),
                     RMul(wave_speed(jj),
                          RSub(RMul(s.R, sv.R), RMul(bndryval, vpar))))
      ELSE IF RLt(amax, vpar) THEN RMul(s.R, RMul(vpar, sv.R))
      ELSE IF RLt(vpar, RNeg(amax)) THEN RZero
      ELSE RMul(s.R, RMul(RMul(RHalf, RAdd(vpar, amax)), sv.R))

\* flux through the left boundary of cell jj
LeftFluxBlendOnly(jj) ==
  LET s == StencilF(jj)
      sv == StencilV(jj)
      vpar == VparL(jj)
      bndryval == RMul(RHalf, RAdd(s.c, s.m))
      amax == AmaxL(jj)
  IN  IF FirstPoint(jj)
      THEN IF fixflux
           THEN RMul(bndryval, RMul(vpar, vpar))
           ELSE RSub(RMul(s.L, RMul(vpar, sv.L)),
                     RMul(wave_speed(jj),
                          RSub(RMul(s.L, sv.L), RMul(bndryval, vpar))))
      ELSE IF RLt(amax, vpar) THEN RZero
      ELSE RMul(s.L, RMul(RMul(RHalf, RSub(vpar, amax)), sv.L))
LeftFlux(jj) ==
  LET s == StencilF(jj)
      sv == StencilV(jj)
      vpar == VparL(jj)
      bndryval == RMul(RHalf, RAdd(s.c, s.m))
      amax == AmaxL(jj)
  IN  IF FirstPoint(jj)
      THEN IF fixflux
           THEN RMul(bndryval, RMul(vpar, vpar))
           ELSE RSub(RMul(s.L, RMul(vpar, sv.L)),
                     RMul(wave_speed(jj),
                          RSub(RMul(s.L, sv.L), RMul(bndryval, vpar))))
      ELSE IF RLt(vpar, RNeg(amax)) THEN RMul(s.L, RMul(vpar, sv.L))
      ELSE IF RLt(amax, vpar) THEN RZero
      ELSE RMul(s.L, RMul(RMul(RHalf, RSub(vpar, amax)), sv.L))

NoFace == [side |-> "none", j |-> 0, bndry |-> FALSE]

CompIdle ==
  /\ cfg = <<>> /\ N = 0 /\ logN = 0 /\ NV = 0 /\ state = <<>> /\ calls = <<>>
  /\ err = NoErr /\ ddtN = ZeroDdt /\ ddtlogN = NoLog /\ ddtNV = ZeroDdt
  /\ Sn = RZero /\ wsDen = NoWave /\ wsMom = NoWave /\ readsDen = {}

\* the arguments of a call and the mesh it runs on
InitFvv ==
  /\ CompIdle
  /\ ClampIdle
  /\ periodic \in BOOLEAN
  /\ fixflux \in BOOLEAN
  /\ \E b \in 1..MaxF, s \in FShapes : gf = Communicated(Profile(b, s), periodic)
  /\ \E b \in (-MaxV)..MaxV, s \in VShapes : gv = Communicated(Profile(b, s), periodic)
  /\ \E b \in 0..MaxW, s \in WShapes : gw = Communicated(Profile(b, s), periodic)
  /\ \E mt \in {"uniform", "stretched"} :
        /\ gJ = Communicated(MetricJ(mt), periodic)
        /\ gdy = Communicated(MetricDy(mt), periodic)
        /\ gg_22 = Communicated(MetricG22(mt), periodic)
  /\ run = 1
  /\ pc = "start"
  /\ ys = 0 /\ ye = 0 /\ j = 0
  /\ flux = RZero
  /\ at = NoFace
  /\ result = <<>>
  /\ touched = {}
  /\ out = <<>>
  /\ fluxLog = {}

\* entry of Div_par_fvv up to the head of the loop over y
Start ==
  /\ pc = "start"
  /\ result' = [i \in 0..(mesh.LocalNy - 1) |-> RZero]
  /\ ys' = LoopRange(mesh, periodicY).ys
  /\ ye' = LoopRange(mesh, periodicY).ye
  /\ j' = ys'
  /\ pc' = "right"
  /\ touched' = {}
  /\ at' = NoFace
  /\ UNCHANGED <<clampVars, compVars, fvvIn, run, flux, out, fluxLog>>

\* the body of the loop up to the accumulation of the right boundary flux
RightFace ==
  /\ pc = "right"
  /\ flux' = RightFlux(j)
  /\ at' = [side |-> "R", j |-> j, bndry |-> LastPoint(j)]
  /\ result' = [result EXCEPT ![j] = RAdd(@, RMul(flux', flux_factor_rc(j))),
                              ![j + 1] = RSub(@, RMul(flux', flux_factor_rp(j)))]
  /\ touched' = touched \cup {j - 1, j, j + 1}
  /\ fluxLog' = fluxLog \cup {[run |-> run, face |-> mesh.off + j, side |-> "R",
                              flux |-> flux']}
  /\ pc' = "left"
  /\ UNCHANGED <<clampVars, compVars, fvvIn, run, ys, ye, j, out>>

\* the left boundary flux, its accumulation, and the loop increment
LeftFace ==
  /\ pc = "left"
  /\ flux' = LeftFlux(j)
  /\ at' = [side |-> "L", j |-> j, bndry |-> FirstPoint(j)]
  /\ result' = [result EXCEPT ![j] = RSub(@, RMul(flux', flux_factor_lc(j))),
                              ![j - 1] = RAdd(@, RMul(flux', flux_factor_lm(j)))]
  /\ touched' = touched \cup {j - 1, j}
  /\ fluxLog' = fluxLog \cup {[run |-> run, face |-> mesh.off + j - 1, side |-> "L",
                              flux |-> flux']}
  /\ j' = j + 1
  /\ pc' = IF j + 1 <= ye THEN "right" ELSE "return"
  /\ UNCHANGED <<clampVars, compVars, fvvIn, run, ys, ye, out>>

\* return fromFieldAligned(result, "RGN_NOBNDRY"): the result on the cells
\* that are not guard cells; then the next mesh is computed
Return ==
  /\ pc = "return"
  /\ out' = Append(out, [i \in mesh.ystart..mesh.yend |-> result[i]])
  /\ run' = run + 1
  /\ pc' = IF run < Len(Runs) THEN "start" ELSE "done"
  /\ at' = NoFace
  /\ UNCHANGED <<clampVars, compVars, fvvIn, ys, ye, j, flux, result, touched, fluxLog>>

NextFvv == Start \/ RightFace \/ LeftFace \/ Return

SpecFvv == InitFvv /\ [][NextFvv]_vars

\* ------------------------------------------------------------------------
\* Properties of Div_par_fvv (checked under SpecFvv)
\* ------------------------------------------------------------------------
InLoop == pc \in {"right", "left", "return"}
RunIx(name) == CHOOSE r \in 1..Len(Runs) : Runs[r].name = name
LocalCells == 0..(mesh.LocalNy - 1)
Interior == mesh.ystart..mesh.yend

RECURSIVE RSumFn(_, _)
RSumFn(fn, S) ==
  IF S = {} THEN RZero
  ELSE LET x == CHOOSE y \in S : TRUE
       IN  RAdd(fn[x], RSumFn(fn, S \ {x}))
RSumOver(S, g(_)) == RSumFn([x \in S |-> g(x)], S)
RECURSIVE RSumCells(_, _, _)
RSumCells(fn, a, b) == IF a > b THEN RZero ELSE RAdd(fn[a], RSumCells(fn, a + 1, b))

SupersonicInput == \A i \in GCells : RLt(R(gw[i]), RAbs(R(gv[i])))
UniformF == \A i \in GCells : gf[i] = gf[0]
ZeroV == \A i \in GCells : gv[i] = 0
UniformGrid == \A i \in GCells : gJ[i] = gJ[0] /\ gdy[i] = gdy[0] /\ gg_22[i] = gg_22[0]

\* pure upwind values: the donor cell's reconstruction carried by the face
\* velocity, nothing from the receiving side
UpwindR(jj) ==
  IF RLt(RZero, VparR(jj))
  THEN RMul(StencilF(jj).R, RMul(VparR(jj), StencilV(jj).R)) ELSE RZero
UpwindL(jj) ==
  IF RLt(VparL(jj), RZero)
  THEN RMul(StencilF(jj).L, RMul(VparL(jj), StencilV(jj).L)) ELSE RZero

\* C5 as stated: when |v| exceeds the wave speed in every cell, the flux at
\* each face is the pure upwind value (the donor side's s.R * vpar * sv.R or
\* s.L * vpar * sv.L, nothing from the receiving side), without blending or
\* wave-speed term.
PureR(jj) == RMul(StencilF(jj).R, RMul(VparR(jj), StencilV(jj).R))
PureL(jj) == RMul(StencilF(jj).L, RMul(VparL(jj), StencilV(jj).L))
C5_Original ==
  /\ (at.side = "R" /\ SupersonicInput) => flux \in {PureR(at.j), RZero}
  /\ (at.side = "L" /\ SupersonicInput) => flux \in {PureL(at.j), RZero}

\* C5 (amended): at every face that is not a physical (non-periodic) boundary
\* face and where the face velocity, the mean of the two adjacent cell
\* velocities, exceeds in magnitude the larger wave speed of the two adjacent
\* cells, the flux is the pure upwind value, without blending or wave-speed
\* term.
C5_SupersonicFaces ==
  /\ (at.side = "R" /\ ~LastPoint(at.j) /\ RLt(AmaxR(at.j), RAbs(VparR(at.j))))
        => flux = UpwindR(at.j)
  /\ (at.side = "L" /\ ~FirstPoint(at.j) /\ RLt(AmaxL(at.j), RAbs(VparL(at.j))))
        => flux = UpwindL(at.j)

C5_Witness ==
  /\ at.side = "L" /\ ~FirstPoint(at.j)
  /\ SupersonicInput
  /\ RLt(VparL(at.j), RNeg(AmaxL(at.j)))
  /\ StencilF(at.j).L # f(at.j)
  /\ flux = UpwindL(at.j) /\ flux # RZero

\* C6: for a spatially uniform f and v = 0 everywhere the operator returns
\* exactly zero on every interior cell, for every wave speed, fixflux and
\* boundary combination.
C6_NoFlowNoFlux ==
  (UniformF /\ ZeroV) =>
     \A r \in 1..Len(out) : \A i \in DOMAIN out[r] : out[r][i] = RZero

C6_Witness ==
  /\ UniformF /\ ZeroV
  /\ ~fixflux /\ ~periodic
  /\ \E i \in GCells : gw[i] > 0 /\ gw[i] # gw[0]
  /\ Len(out) = Len(Runs)
  /\ \A r \in 1..Len(out) : \A i \in DOMAIN out[r] : out[r][i] = RZero

\* C8: the result on every interior cell of the lower and of the upper rank
\* equals the result of the same cell of the undivided column, and the fluxes
\* the two ranks compute through their shared face are equal.
SharedFace == MYG + RankNy - 1
SameCell(name) ==
  LET r == RunIx(name)
  IN  Len(out) >= r =>
        \A i \in DOMAIN out[r] : out[r][i] = out[RunIx("whole")][i + Runs[r].off]
FaceFluxes(name) ==
  {[side |-> e.side, flux |-> e.flux] :
      e \in {x \in fluxLog : x.run = RunIx(name) /\ x.face = SharedFace}}
C8_PartitionConsistent ==
  /\ SameCell("lower")
  /\ SameCell("upper")
  /\ Len(out) >= RunIx("upper") =>
        /\ FaceFluxes("lower") = FaceFluxes("upper")
        /\ {e.side : e \in FaceFluxes("lower")} = {"R", "L"}

C8_Witness ==
  /\ Len(out) >= RunIx("upper")
  /\ ~periodic
  /\ out[RunIx("lower")][Runs[RunIx("lower")].yend] # RZero
  /\ out[RunIx("lower")][Runs[RunIx("lower")].yend]
       = out[RunIx("whole")][Runs[RunIx("lower")].yend]
  /\ \E e \in FaceFluxes("upper") : e.flux # RZero

\* C9: at every point of the loop the sum over the cells of the column of
\* result * J * dy is zero; on a uniform grid the plain sum is zero; at the
\* end the sum over the interior cells is the net flux through the two end
\* faces.
Weighted == [i \in LocalCells |-> RMul(result[i], RMul(J(i), dy(i)))]
EndFlux(face, cf) ==
  LET es == {e \in fluxLog : e.run = run /\ e.face = mesh.off + face}
      term(e) == RMul(e.flux, cf)
  IN  RSumOver(es, term)
NetEndFlux ==
  RSub(EndFlux(mesh.yend, CommonFactorR(mesh.yend)),
       EndFlux(mesh.ystart - 1, CommonFactorL(mesh.ystart)))
C9_VolumeConserving ==
  InLoop =>
    /\ RSumCells(Weighted, 0, mesh.LocalNy - 1) = RZero
    /\ UniformGrid => RSumCells(result, 0, mesh.LocalNy - 1) = RZero
    /\ pc = "return" => RSumCells(Weighted, mesh.ystart, mesh.yend) = NetEndFlux

C9_Witness ==
  /\ pc = "return"
  /\ ~UniformGrid
  /\ RSumCells(Weighted, mesh.ystart, mesh.yend) # RZero
  /\ RSumCells(result, 0, mesh.LocalNy - 1) # RZero
  /\ RSumCells(Weighted, 0, mesh.LocalNy - 1) = RZero

\* C10: every y index read or written lies in [ystart-2, yend+2] and inside
\* the allocated range; at a non-periodic physical end the outermost index
\* touched is ystart-1 (yend+1); the physical-boundary flux branch is taken
\* exactly at the end cells of the columns whose guard cell is excluded from
\* the loop.
C10_IndexSafety ==
  InLoop =>
    /\ touched \subseteq (mesh.ystart - 2)..(mesh.yend + 2)
    /\ touched \subseteq LocalCells
    /\ (pc = "return" /\ mesh.firstY /\ ~periodicY) =>
          /\ mesh.ystart - 1 \in touched
          /\ \A i \in touched : i >= mesh.ystart - 1
    /\ (pc = "return" /\ mesh.lastY /\ ~periodicY) =>
          /\ mesh.yend + 1 \in touched
          /\ \A i \in touched : i <= mesh.yend + 1
    /\ at.side = "R" => (at.bndry <=> (ye = mesh.yend /\ at.j = mesh.yend))
    /\ at.side = "L" => (at.bndry <=> (ys = mesh.ystart /\ at.j = mesh.ystart))

C10_Witness ==
  /\ pc = "return"
  /\ mesh.name = "middle"
  /\ touched = (mesh.ystart - 2)..(mesh.yend + 2)

\* ------------------------------------------------------------------------
\* clamp and the argument of the logarithm of the low-density diffusion
\* ------------------------------------------------------------------------
\* 1e-6 * density_floor
LowerLimit(dfl) == RMul(<<1, 1000000>>, R(dfl))

\* the densities tried: multiples of the lower limit and of the floor, zero
\* and negative values
Samples(dfl) ==
  {RMul(R(k), LowerLimit(dfl)) : k \in (-1)..MaxK}
  \cup {RMul(<<k, 2>>, LowerLimit(dfl)) : k \in 1..MaxK}
  \cup {RMul(<<k, 2>>, R(dfl)) : k \in (-1)..MaxK}

\* the body of the loop of clamp
clampCellUpperOnly(x, lo, hi) == IF RLt(hi, x) THEN hi ELSE x
clampCell(x, lo, hi) ==
  IF RLt(x, lo) THEN lo
  ELSE IF RLt(hi, x) THEN hi ELSE x

InitClamp ==
  /\ CompIdle
  /\ FvvIdle
  /\ density_floor \in 1..MaxFloor
  /\ cvar \in [1..ClampCells -> Samples(density_floor)]
  /\ cresult = <<>>
  /\ cd = 0
  /\ cpc = "copy"
  /\ logArg = <<>>

\* T result = copy(var)
ClampCopy ==
  /\ cpc = "copy"
  /\ cresult' = cvar
  /\ cd' = 1
  /\ cpc' = "loop"
  /\ UNCHANGED <<compVars, fvvVars, density_floor, cvar, logArg>>

\* one iteration of BOUT_FOR(d, var.getRegion(rgn))
ClampLoop ==
  /\ cpc = "loop"
  /\ cd <= ClampCells
  /\ cresult' = [cresult EXCEPT ![cd] =
                   clampCell(@, LowerLimit(density_floor), R(density_floor))]
  /\ cd' = cd + 1
  /\ UNCHANGED <<compVars, fvvVars, density_floor, cvar, cpc, logArg>>

\* return result; density_floor / clamp(N, 1e-6 * density_floor, density_floor)
LogArgument ==
  /\ cpc = "loop"
  /\ cd > ClampCells
  /\ logArg' = [i \in 1..ClampCells |-> RDiv(R(density_floor), cresult[i])]
  /\ cpc' = "done"
  /\ UNCHANGED <<compVars, fvvVars, density_floor, cvar, cresult, cd>>

NextClamp == ClampCopy \/ ClampLoop \/ LogArgument

SpecClamp == InitClamp /\ [][NextClamp]_vars

\* C7: for every density (zero and negative included) and every positive
\* density_floor the argument of the logarithm lies in [1, 1e6], so it is
\* positive; it does not increase with the density; it is exactly 1 wherever
\* the density is at least density_floor.
C7_LogArgument ==
  cpc = "done" =>
    /\ \A i \in 1..ClampCells :
          /\ logArg[i][2] > 0
          /\ RLt(RZero, logArg[i])
          /\ RLeq(R(1), logArg[i])
          /\ RLeq(logArg[i], R(1000000))
          /\ RLeq(R(density_floor), cvar[i]) => logArg[i] = R(1)
    /\ \A i, k \in 1..ClampCells :
          RLeq(cvar[i], cvar[k]) => RLeq(logArg[k], logArg[i])

C7_Witness ==
  /\ cpc = "done"
  /\ RLt(cvar[1], RZero)
  /\ logArg[1] = R(1000000)
  /\ RLt(LowerLimit(density_floor), cvar[2]) /\ RLt(cvar[2], R(density_floor))
  /\ RLt(R(1), logArg[2]) /\ RLt(logArg[2], logArg[1])

====
